---- MODULE Spec2Model ----
(***************************************************************************)
(* A model of src/runtime_ccall.cpp: the library handle registry           *)
(* (jl_get_library_), the call-site symbol resolver (jl_load_and_lookup),  *)
(* the trampoline slot allocator (trampoline_alloc / trampoline_free),     *)
(* the trampoline cache (jl_get_cfunction_trampoline) and the finalizer of *)
(* managed trampoline wrappers (trampoline_deleter).                       *)
(***************************************************************************)
EXTENDS Integers, Sequences, FiniteSets, TLC

\* ------------------------------------------------------------------ bounds
\* The loader is called at most this often per library name.
MaxLoaderCalls == 2

\* Two mutator threads run the runtime's entry points concurrently.
Threads == {1, 2}

\* ------------------------------------------------------- library registry
\* f_lib values.  "NULL" is the null name; the three JL_*_LIBNAME values are
\* the sentinel names compared by pointer at lines 34-39.
SentinelNames == {"NULL", "JL_EXE_LIBNAME", "JL_LIBJULIA_INTERNAL_DL_LIBNAME",
                  "JL_LIBJULIA_DL_LIBNAME"}
DynNames == {"m", "nolib"}
LibNames == SentinelNames \cup DynNames

\* A handle is a loaded image: which library, and which loader call made it.
NULL == [lib |-> "NULL", seq |-> 0]
jl_RTLD_DEFAULT_handle == [lib |-> "RTLD_DEFAULT", seq |-> 0]
jl_exe_handle == [lib |-> "exe", seq |-> 0]
jl_libjulia_internal_handle == [lib |-> "libjulia-internal", seq |-> 0]
jl_libjulia_handle == [lib |-> "libjulia", seq |-> 0]

\* The names the platform loader can load.
Loadable == {"m"}

\* jl_load_dynamic_library(f_lib, JL_RTLD_DEFAULT, throw_err) as called for the
\* k-th time on f_lib: the handle of a fresh load, or NULL when it fails.
jl_load_dynamic_library(f_lib, k) ==
    IF f_lib \in Loadable THEN [lib |-> f_lib, seq |-> k] ELSE NULL

\* The symbols an image exports.
Exports(lib) ==
    CASE lib = "m" -> {"sin"}
      [] lib = "RTLD_DEFAULT" -> {"malloc"}
      [] OTHER -> {}

\* jl_dlsym(handle, f_name, &ptr, 1): the address, or NoSymbol (it throws).
NoSymbol == [lib |-> "NULL", sym |-> "NULL"]
jl_dlsym(handle, f_name) ==
    IF f_name \in Exports(handle.lib) THEN [lib |-> handle.lib, sym |-> f_name]
    ELSE NoSymbol

\* Call sites of jl_load_and_lookup: the constants f_lib and f_name generated
\* code passes along with its cache cell.
Cells == {1, 2, 3}
CellLib(c) == CASE c = 1 -> "m" [] c = 2 -> "m" [] OTHER -> "nolib"
CellSym(c) == CASE c = 1 -> "sin" [] c = 2 -> "nosym" [] OTHER -> "sin"

\* ------------------------------------------------------------ trampolines
\* Most buffers malloc'd, hence most wrappers built, by concurrent callers.
MaxBuilds == 2
\* The same for a single caller.
MaxSeqBuilds == 4
\* The same for a single caller of specialized requests.
MaxFillBuilds == 3
\* The same for a caller that runs beside a thread in the registry.
MaxMixBuilds == 1
\* The finalizer runs at most this often on one wrapper.
MaxRuns == 2
\* mmap succeeds at most this often.
MaxPages == 2
\* The bytes of an executable page.
jl_page_size == 128
\* const int sz: the bytes of one trampoline slot.
sz == 64

HT_NOTFOUND == -1

\* Callable objects (fobj), named by their addresses.
ClosureC == 1
ClosureD == 2
SingletonF == 3
ConcreteT == 4
UnionAllCanon == 5
UnionAllOther == 6
Fobjs == {ClosureC, ClosureD, SingletonF, ConcreteT, UnionAllCanon, UnionAllOther}
jl_is_concrete_type(v) == v = ConcreteT
IsInstanceOfItsType(v) == v = SingletonF
jl_is_unionall(v) == v \in {UnionAllCanon, UnionAllOther}
WrapperIsSelf(v) == v = UnionAllCanon

\* Call sites of jl_get_cfunction_trampoline and their constants: the cache
\* (named by the site), the fill template and the result type, which the
\* assertion at line 307 ties to the cache.
Sites == {1, 2, 3}
Fill(site) == IF site = 2 THEN <<"T", "Any">> ELSE <<>>
ResultType(site) == IF site = 3 THEN "voidpointer" ELSE "CFunction"
\* The vals arrays of specialized calls, named by their addresses.
Vals == {11, 12, 13}
Keys == Fobjs \cup Vals
\* The inner table malloc'd for (site, vals) at line 300.
InnerTable(site, vals) == 100 * site + vals
Tables == Sites \cup {InnerTable(s, v) : s \in Sites, v \in Vals}

\* jl_instantiate_type_in_env(fill[i], env, vals): the type the template
\* entry denotes under the bindings of vals.
jl_instantiate_type_in_env(e, vals) ==
    IF e = "T"
    THEN (CASE vals = 11 -> "Int64" [] vals = 12 -> "Real" [] OTHER -> "Vector")
    ELSE e
\* Line 320: "Int64" is concrete and immutable, "Real" is not concrete,
\* "Vector" is concrete and mutable.
IsConcreteAndImmutable(ty) == ty \in {"Int64", "Vector"} /\ ty \in {"Int64", "Real"}

\* The bug of storing the instantiated value whatever it is.
SparamVal_Verbatim(ty) == ty

\* Lines 319-321: what goes into the specialization buffer.
SparamVal(ty) ==
    IF ty # "Any" /\ ~IsConcreteAndImmutable(ty) THEN "NULL" ELSE ty

\* The requests the mutators make: <<site, fobj, vals>>.
Requests == {<<1, ClosureC, 0>>, <<2, ClosureC, 11>>}
\* The requests of the single caller.
SeqRequests == {<<1, ClosureC, 0>>, <<1, ClosureD, 0>>}
\* Requests of every kind of callable and of the raw code pointer result.
\* Specialized requests whose template entry instantiates to each kind of
\* value.
FillRequests == {<<2, ClosureC, 11>>, <<2, ClosureC, 12>>, <<2, ClosureC, 13>>}
\* The request of the caller that runs beside a thread in the registry.
MixRequests == {<<1, ClosureC, 0>>}
PermRequests ==
    {<<3, ClosureC, 0>>, <<1, SingletonF, 0>>, <<1, ConcreteT, 0>>,
     <<1, UnionAllCanon, 0>>, <<1, UnionAllOther, 0>>}

VARIABLES
    trampoline_lock,      \* owner: 0 free, t a thread, -w the finalizer of w
    trampoline_freelist,  \* address of the first free slot, 0 when none
    slotmem,              \* first word of every mapped slot
    npages,               \* pages mapped so far
    tableinit,            \* the call-site caches whose storage exists
    ht,                   \* contents of the hash tables
    wr,                   \* the wrapper objects, in allocation order
    nvals,                \* the malloc'd specialization buffers
    roots,                \* the wrappers some caller still holds
    libMap,        \* std::map<std::string, void*> libMap
    libmap_lock,   \* owner of libmap_lock, 0 when free
    loaderCalls,   \* per name, how often the platform loader was invoked
    cell,          \* the _Atomic(void*) cache cell of each call site
    resolved,      \* per name, the handles jl_get_library_ has returned
    pc,            \* per thread, where it is
    loc            \* per thread, its arguments and locals

libvars == <<libMap, libmap_lock, loaderCalls, cell, resolved>>
trvars == <<trampoline_lock, trampoline_freelist, slotmem, npages, tableinit, ht, wr,
            nvals, roots>>
vars == <<libMap, libmap_lock, loaderCalls, cell, resolved, pc, loc,
          trampoline_lock, trampoline_freelist, slotmem, npages, tableinit, ht, wr,
          nvals, roots>>

\* A thread between calls.
NoLocals == [op |-> "none", f_lib |-> "NULL", throw_err |-> FALSE, f_name |-> "NULL",
             hnd |-> 0, handle |-> NULL, ptr |-> NoSymbol, err |-> "none",
             fresh |-> FALSE, site |-> 0, fobj |-> 0, vals |-> 0, cache |-> 0,
             result |-> 0, nval |-> 0, first |-> {}]

Init ==
    /\ libMap = <<>>
    /\ libmap_lock = 0
    /\ loaderCalls = [n \in DynNames |-> 0]
    /\ cell = [c \in Cells |-> NULL]
    /\ resolved = [n \in DynNames |-> {}]
    /\ pc = [t \in Threads |-> "idle"]
    /\ loc = [t \in Threads |-> NoLocals]
    /\ trampoline_lock = 0
    /\ trampoline_freelist = 0
    /\ slotmem = <<>>
    /\ npages = 0
    /\ tableinit = {}
    /\ ht = [tb \in Tables |-> [k \in Keys |-> HT_NOTFOUND]]
    /\ wr = <<>>
    /\ nvals = <<>>
    /\ roots = {}

\* The loader calls f_lib can still get: those made plus those that threads
\* inside jl_get_library_ may yet make.
InFlight(f_lib) ==
    Cardinality({t \in Threads : pc[t] \in {"ll_load", "gl_entry", "gl_map", "gl_load"}
                                 /\ loc[t].f_lib = f_lib})
MayCall(f_lib) ==
    f_lib \in DynNames => loaderCalls[f_lib] + InFlight(f_lib) < MaxLoaderCalls

\* libMap[f_lib] without inserting: NULL when the name has no entry.
MapGet(f_lib) == IF f_lib \in DOMAIN libMap THEN libMap[f_lib] ELSE NULL

\* A caller invokes jl_get_library_(f_lib, throw_err).
CallGetLibrary(t) ==
    /\ pc[t] = "idle"
    /\ \E f_lib \in LibNames, throw_err \in BOOLEAN :
        /\ MayCall(f_lib)
        /\ loc' = [loc EXCEPT ![t] = [NoLocals EXCEPT !.op = "jl_get_library_",
                       !.f_lib = f_lib, !.throw_err = throw_err,
                       !.fresh = (MapGet(f_lib) = NULL)]]
    /\ pc' = [pc EXCEPT ![t] = "gl_entry"]
    /\ UNCHANGED <<libvars, trvars>>

\* How jl_get_library_ hands hnd back: to the caller, or into
\* jl_load_and_lookup, which goes on to store it (line 59).
Return(t, hnd) ==
    /\ IF loc[t].op = "jl_load_and_lookup"
       THEN pc' = [pc EXCEPT ![t] = "ll_store"]
       ELSE pc' = [pc EXCEPT ![t] = "idle"]
    /\ loc' = [loc EXCEPT ![t].handle = hnd]
    /\ resolved' = IF loc[t].f_lib \in DynNames
                   THEN [resolved EXCEPT ![loc[t].f_lib] = @ \cup {hnd}]
                   ELSE resolved

\* Lines 32-39: the null name and the sentinel names return fixed handles
\* without touching the map or the lock.
GetLibrarySentinel(t) ==
    /\ pc[t] = "gl_entry"
    /\ loc[t].f_lib \in SentinelNames
    /\ Return(t, CASE loc[t].f_lib = "NULL" -> jl_RTLD_DEFAULT_handle
                   [] loc[t].f_lib = "JL_EXE_LIBNAME" -> jl_exe_handle
                   [] loc[t].f_lib = "JL_LIBJULIA_INTERNAL_DL_LIBNAME" ->
                          jl_libjulia_internal_handle
                   [] OTHER -> jl_libjulia_handle)
    /\ UNCHANGED <<libMap, libmap_lock, loaderCalls, cell, trvars>>

\* The bug of entering the critical section without waiting for the lock.
GetLibraryLock_NoExclusion(t) ==
    /\ pc[t] = "gl_entry"
    /\ loc[t].f_lib \notin SentinelNames
    /\ libmap_lock' = t
    /\ pc' = [pc EXCEPT ![t] = "gl_map"]
    /\ UNCHANGED <<libMap, loaderCalls, cell, resolved, loc, trvars>>

\* Line 40: JL_LOCK(&libmap_lock).
GetLibraryLock(t) ==
    /\ pc[t] = "gl_entry"
    /\ loc[t].f_lib \notin SentinelNames
    /\ libmap_lock = 0
    /\ libmap_lock' = t
    /\ pc' = [pc EXCEPT ![t] = "gl_map"]
    /\ UNCHANGED <<libMap, loaderCalls, cell, resolved, loc, trvars>>

\* Lines 43-45 and 50-51: find or insert the slot of f_lib; a handle already
\* there is returned after unlocking, else the loader is called next.
GetLibraryMap(t) ==
    /\ pc[t] = "gl_map"
    /\ libMap' = IF loc[t].f_lib \in DOMAIN libMap THEN libMap
                 ELSE libMap @@ (loc[t].f_lib :> NULL)
    /\ IF MapGet(loc[t].f_lib) # NULL
       THEN /\ libmap_lock' = 0
            /\ Return(t, MapGet(loc[t].f_lib))
            /\ UNCHANGED <<loaderCalls, cell>>
       ELSE /\ pc' = [pc EXCEPT ![t] = "gl_load"]
            /\ UNCHANGED <<libmap_lock, loaderCalls, cell, resolved, loc>>
    /\ UNCHANGED trvars

\* The bug of not storing the loaded handle in the map slot.
GetLibraryLoad_NoStore(t) ==
    /\ pc[t] = "gl_load"
    /\ LET f_lib == loc[t].f_lib
           hnd == jl_load_dynamic_library(f_lib, loaderCalls[f_lib] + 1)
       IN /\ loaderCalls' = [loaderCalls EXCEPT ![f_lib] = @ + 1]
          /\ libMap' = libMap
          /\ libmap_lock' = 0
          /\ IF hnd = NULL /\ loc[t].throw_err
             THEN /\ pc' = [pc EXCEPT ![t] = "idle"]
                  /\ loc' = [loc EXCEPT ![t].err = "library_not_found"]
                  /\ UNCHANGED resolved
             ELSE Return(t, hnd)
    /\ UNCHANGED <<cell, trvars>>

\* Lines 46-51: the loader runs with libmap_lock held; a handle is stored in
\* the slot, a failure is not.  With throw_err the loader raises instead of
\* returning NULL: the exception unwinds out of jl_get_library_, and the
\* handler that catches it releases the JL_LOCK locks the frame took.
GetLibraryLoad(t) ==
    /\ pc[t] = "gl_load"
    /\ LET f_lib == loc[t].f_lib
           hnd == jl_load_dynamic_library(f_lib, loaderCalls[f_lib] + 1)
       IN /\ loaderCalls' = [loaderCalls EXCEPT ![f_lib] = @ + 1]
          /\ libMap' = IF hnd # NULL THEN [libMap EXCEPT ![f_lib] = hnd] ELSE libMap
          /\ libmap_lock' = 0
          /\ IF hnd = NULL /\ loc[t].throw_err
             THEN /\ pc' = [pc EXCEPT ![t] = "idle"]
                  /\ loc' = [loc EXCEPT ![t].err = "library_not_found"]
                  /\ UNCHANGED resolved
             ELSE Return(t, hnd)
    /\ UNCHANGED <<cell, trvars>>

\* Generated code calls jl_load_and_lookup(f_lib, f_name, hnd) for call site c.
CallLoadAndLookup(t) ==
    /\ pc[t] = "idle"
    /\ \E c \in Cells :
        /\ MayCall(CellLib(c))
        /\ loc' = [loc EXCEPT ![t] = [NoLocals EXCEPT !.op = "jl_load_and_lookup",
                       !.f_lib = CellLib(c), !.f_name = CellSym(c), !.hnd = c,
                       !.throw_err = TRUE]]
    /\ pc' = [pc EXCEPT ![t] = "ll_load"]
    /\ UNCHANGED <<libvars, trvars>>

\* Lines 57-59: the acquire load of the cell; a null cell goes through
\* jl_get_library(f_lib), which is jl_get_library_(f_lib, 1).
LoadAndLookupLoad(t) ==
    /\ pc[t] = "ll_load"
    /\ loc' = [loc EXCEPT ![t].handle = cell[loc[t].hnd],
                          ![t].fresh = (cell[loc[t].hnd] = NULL)]
    /\ pc' = [pc EXCEPT ![t] = IF cell[loc[t].hnd] # NULL THEN "ll_dlsym" ELSE "gl_entry"]
    /\ UNCHANGED <<libvars, trvars>>

\* The bug of not publishing the handle in the cell.
LoadAndLookupStore_Skip(t) ==
    /\ pc[t] = "ll_store"
    /\ cell' = cell
    /\ pc' = [pc EXCEPT ![t] = "ll_dlsym"]
    /\ UNCHANGED <<libMap, libmap_lock, loaderCalls, resolved, loc, trvars>>

\* Line 59: the release store of the library handle into the cell.
LoadAndLookupStore(t) ==
    /\ pc[t] = "ll_store"
    /\ cell' = [cell EXCEPT ![loc[t].hnd] = loc[t].handle]
    /\ pc' = [pc EXCEPT ![t] = "ll_dlsym"]
    /\ UNCHANGED <<libMap, libmap_lock, loaderCalls, resolved, loc, trvars>>

\* Lines 60-62: jl_dlsym with throw_err = 1 raises when the symbol is missing.
LoadAndLookupDlsym(t) ==
    /\ pc[t] = "ll_dlsym"
    /\ LET ptr == jl_dlsym(loc[t].handle, loc[t].f_name)
       IN loc' = [loc EXCEPT ![t].ptr = ptr,
                             ![t].err = IF ptr = NoSymbol THEN "symbol_not_found"
                                        ELSE "none"]
    /\ pc' = [pc EXCEPT ![t] = "idle"]
    /\ UNCHANGED <<libvars, trvars>>

\* The steps of the threads ts in the registry and the resolver.
LibSteps(ts) ==
    \E t \in ts :
        \/ CallGetLibrary(t)
        \/ GetLibrarySentinel(t)
        \/ GetLibraryLock(t)
        \/ GetLibraryMap(t)
        \/ GetLibraryLoad(t)
        \/ CallLoadAndLookup(t)
        \/ LoadAndLookupLoad(t)
        \/ LoadAndLookupStore(t)
        \/ LoadAndLookupDlsym(t)

LibNext == LibSteps(Threads)

\* ------------------------------------------------- trampoline page allocator
SlotsPerPage == jl_page_size \div sz

\* Lines 237-244: the slots of the page at mem, each linked to the one below
\* it and the lowest to NULL; the list starts at the highest.
NewPage(mem) ==
    [a \in {mem + i * sz : i \in 0..(SlotsPerPage - 1)} |->
        IF a = mem THEN 0 ELSE a - sz]
PageHead(mem) == mem + (SlotsPerPage - 1) * sz

\* What init_trampoline leaves in the slot: code made from the buffer, whose
\* first entry is the callable.
Code(buf) == 0 - buf[1]

\* The bug of returning the head without unlinking it.
trampoline_alloc_NoPop(mapok) ==
    LET needmap == trampoline_freelist = 0
        mem == (npages + 1) * jl_page_size
        mem1 == IF needmap THEN slotmem @@ NewPage(mem) ELSE slotmem
        tramp == IF needmap THEN PageHead(mem) ELSE trampoline_freelist
    IN  IF needmap /\ ~mapok
        THEN [throws |-> TRUE, tramp |-> 0, freelist |-> trampoline_freelist,
              slotmem |-> slotmem, npages |-> npages]
        ELSE [throws |-> FALSE, tramp |-> tramp, freelist |-> tramp,
              slotmem |-> mem1, npages |-> IF needmap THEN npages + 1 ELSE npages]

\* The bug of mapping a page on every allocation.
trampoline_alloc_AlwaysMap(mapok) ==
    LET mem == (npages + 1) * jl_page_size
        mem1 == slotmem @@ NewPage(mem)
        tramp == PageHead(mem)
    IN  IF ~mapok
        THEN [throws |-> TRUE, tramp |-> 0, freelist |-> trampoline_freelist,
              slotmem |-> slotmem, npages |-> npages]
        ELSE [throws |-> FALSE, tramp |-> tramp, freelist |-> mem1[tramp],
              slotmem |-> mem1, npages |-> npages + 1]

\* trampoline_alloc, lines 217-249, given whether mmap succeeds: it throws
\* when the list is empty and mmap fails, else maps a page if the list is
\* empty and pops the head.
trampoline_alloc(mapok) ==
    LET needmap == trampoline_freelist = 0
        mem == (npages + 1) * jl_page_size
        mem1 == IF needmap THEN slotmem @@ NewPage(mem) ELSE slotmem
        tramp == IF needmap THEN PageHead(mem) ELSE trampoline_freelist
    IN  IF needmap /\ ~mapok
        THEN [throws |-> TRUE, tramp |-> 0, freelist |-> trampoline_freelist,
              slotmem |-> slotmem, npages |-> npages]
        ELSE [throws |-> FALSE, tramp |-> tramp, freelist |-> mem1[tramp],
              slotmem |-> mem1, npages |-> IF needmap THEN npages + 1 ELSE npages]

\* The bug of linking the slot without making it the head.
trampoline_free_NoHead(tramp) ==
    [freelist |-> trampoline_freelist,
     slotmem |-> [slotmem EXCEPT ![tramp] = trampoline_freelist]]

\* trampoline_free, lines 251-255: the slot's first word takes the old head
\* and the slot becomes the head.
trampoline_free(tramp) ==
    [freelist |-> tramp, slotmem |-> [slotmem EXCEPT ![tramp] = trampoline_freelist]]

\* The free list as the allocator walks it, cut after n slots.
RECURSIVE FreeListFrom(_, _)
FreeListFrom(p, n) ==
    IF p = 0 \/ n = 0 \/ p \notin DOMAIN slotmem THEN <<>>
    ELSE <<p>> \o FreeListFrom(slotmem[p], n - 1)
FreeList == FreeListFrom(trampoline_freelist, Cardinality(DOMAIN slotmem) + 1)
OnFreeList(a) == \E i \in 1..Len(FreeList) : FreeList[i] = a

\* ------------------------------------------------------- trampoline cache
ptrhash_get(tb, key) == ht[tb][key]

\* The bug of leaving the raw code pointer out of the permanent cases.
permanent_NoVoidPointer(fobj, result_type) ==
    \/ jl_is_concrete_type(fobj)
    \/ IsInstanceOfItsType(fobj)
    \/ (jl_is_unionall(fobj) /\ WrapperIsSelf(fobj))

\* Lines 324-332: the permanence of the wrapper.
permanent(fobj, result_type) ==
    \/ result_type = "voidpointer"
    \/ jl_is_concrete_type(fobj)
    \/ IsInstanceOfItsType(fobj)
    \/ (jl_is_unionall(fobj) /\ WrapperIsSelf(fobj))

\* Lines 313-323: the specialization buffer, the callable first.
NewNval(fobj, fill, vals) ==
    <<fobj>> \o [i \in 1..Len(fill) |-> SparamVal(jl_instantiate_type_in_env(fill[i], vals))]

NoDeleter == [tramp |-> 0, fobj |-> 0, cache |-> 0, nval |-> 0]

\* Lines 333-349: the wrapper as it is before it gets its slot.  A raw code
\* pointer has the one field; f1..f3 of it are never written.
NewWrapper(fobj, result_type, cache, nval) ==
    LET perm == permanent(fobj, result_type)
    IN [f0 |-> 0,
        f1 |-> IF result_type # "voidpointer" THEN fobj ELSE 0,
        f2 |-> IF ~perm THEN cache ELSE 0,
        f3 |-> IF ~perm THEN nval ELSE 0,
        type |-> result_type,
        perm |-> perm,
        finalizer |-> ~perm,
        fin |-> "none",
        runs |-> 0,
        d |-> NoDeleter,
        key |-> <<cache, fobj>>]

\* The wrappers a completed call has handed out for a key and whose finalizer
\* has not been queued.
Returned(cache, fobj) ==
    {w \in 1..Len(wr) : wr[w].key = <<cache, fobj>> /\ wr[w].f0 # 0 /\ wr[w].fin = "none"}

\* The table a request is looked up in: the call site's own, or the inner
\* table of vals when the fill template is not empty (lines 296-303).
CacheOf(site, vals) == IF Fill(site) # <<>> THEN InnerTable(site, vals) ELSE site

\* A caller invokes jl_get_cfunction_trampoline for one of the requests reqs.
\* first remembers the wrappers that earlier calls returned for the same
\* request.
CallGetTrampoline(t, reqs) ==
    /\ pc[t] = "idle"
    /\ \E r \in reqs :
        loc' = [loc EXCEPT ![t] = [NoLocals EXCEPT
                    !.op = "jl_get_cfunction_trampoline",
                    !.site = r[1], !.fobj = r[2], !.vals = r[3],
                    !.first = Returned(CacheOf(r[1], r[3]), r[2])]]
    /\ pc' = [pc EXCEPT ![t] = "tr_lookup"]
    /\ UNCHANGED <<libvars, trvars>>

\* The bug of going on to build without unlocking the mutex.
TrampLookup_KeepLock(t) ==
    /\ pc[t] = "tr_lookup"
    /\ trampoline_lock = 0
    /\ LET site == loc[t].site
           specialized == Fill(site) # <<>>
           cache == CacheOf(site, loc[t].vals)
           tramp == ptrhash_get(cache, loc[t].fobj)
       IN /\ tableinit' = tableinit \cup {site}
          /\ ht' = IF specialized /\ ht[site][loc[t].vals] = HT_NOTFOUND
                   THEN [ht EXCEPT ![site][loc[t].vals] = cache]
                   ELSE ht
          /\ IF tramp # HT_NOTFOUND
             THEN /\ loc' = [loc EXCEPT ![t] = NoLocals]
                  /\ roots' = roots \cup {tramp}
                  /\ pc' = [pc EXCEPT ![t] = "idle"]
                  /\ trampoline_lock' = 0
             ELSE /\ loc' = [loc EXCEPT ![t].cache = cache]
                  /\ roots' = roots
                  /\ pc' = [pc EXCEPT ![t] = "tr_build"]
                  /\ trampoline_lock' = t
    /\ UNCHANGED <<libvars, trampoline_freelist, slotmem, npages, wr, nvals>>

\* Lines 293-309: under the lock, make the cache's storage, find or make the
\* inner table of vals, look fobj up; a hit returns the wrapper found.
TrampLookup(t) ==
    /\ pc[t] = "tr_lookup"
    /\ trampoline_lock = 0
    /\ LET site == loc[t].site
           specialized == Fill(site) # <<>>
           cache == CacheOf(site, loc[t].vals)
           tramp == ptrhash_get(cache, loc[t].fobj)
       IN /\ tableinit' = tableinit \cup {site}
          /\ ht' = IF specialized /\ ht[site][loc[t].vals] = HT_NOTFOUND
                   THEN [ht EXCEPT ![site][loc[t].vals] = cache]
                   ELSE ht
          /\ IF tramp # HT_NOTFOUND
             THEN /\ loc' = [loc EXCEPT ![t] = NoLocals]
                  /\ roots' = roots \cup {tramp}
                  /\ pc' = [pc EXCEPT ![t] = "idle"]
             ELSE /\ loc' = [loc EXCEPT ![t].cache = cache]
                  /\ roots' = roots
                  /\ pc' = [pc EXCEPT ![t] = "tr_build"]
    /\ UNCHANGED <<libvars, trampoline_lock, trampoline_freelist, slotmem, npages, wr,
                   nvals>>

\* Lines 312-354: malloc the buffer, fill it, allocate the wrapper and
\* register its finalizer.  A throw from the type system or from the object
\* allocator frees the buffer and is rethrown.  At most max buffers are
\* ever malloc'd.
TrampBuild(t, max) ==
    /\ pc[t] = "tr_build"
    /\ Len(nvals) < max
    /\ \E outcome \in {"ok", "type_instantiation", "out_of_memory"} :
        LET buf == NewNval(loc[t].fobj, Fill(loc[t].site), loc[t].vals)
            nval == Len(nvals) + 1
        IN IF outcome = "ok"
           THEN /\ nvals' = Append(nvals, [buf |-> buf, frees |-> 0])
                /\ wr' = Append(wr, NewWrapper(loc[t].fobj, ResultType(loc[t].site),
                                               loc[t].cache, nval))
                /\ loc' = [loc EXCEPT ![t].nval = nval, ![t].result = Len(wr) + 1]
                /\ pc' = [pc EXCEPT ![t] = "tr_relock"]
           ELSE /\ outcome = "type_instantiation" => Fill(loc[t].site) # <<>>
                /\ nvals' = Append(nvals, [buf |-> buf, frees |-> 1])
                /\ wr' = wr
                /\ loc' = [loc EXCEPT ![t] = NoLocals]
                /\ pc' = [pc EXCEPT ![t] = "idle"]
    /\ UNCHANGED <<libvars, trampoline_lock, trampoline_freelist, slotmem, npages,
                   tableinit, ht, roots>>

\* Line 355: uv_mutex_lock(&trampoline_lock).
TrampRelock(t) ==
    /\ pc[t] = "tr_relock"
    /\ trampoline_lock = 0
    /\ trampoline_lock' = t
    /\ pc' = [pc EXCEPT ![t] = "tr_alloc"]
    /\ UNCHANGED <<libvars, trampoline_freelist, slotmem, npages, tableinit, ht, wr,
                   nvals, roots, loc>>

\* Lines 356-361: take a slot, store it in the wrapper, have the initializer
\* write the slot, insert the wrapper, unlock and return it.  When mmap
\* fails, jl_throw leaves the function at line 234 with the mutex still locked.
TrampAllocInsert(t) ==
    /\ pc[t] = "tr_alloc"
    /\ \E mapok \in BOOLEAN :
        /\ mapok => npages < MaxPages
        /\ LET a == trampoline_alloc(mapok)
               result == loc[t].result
           IN IF a.throws
              THEN /\ loc' = [loc EXCEPT ![t] = NoLocals]
                   /\ UNCHANGED <<trampoline_lock, trampoline_freelist, slotmem,
                                  npages, ht, wr, roots>>
              ELSE /\ trampoline_freelist' = a.freelist
                   /\ npages' = a.npages
                   /\ wr' = [wr EXCEPT ![result].f0 = a.tramp]
                   /\ slotmem' = [a.slotmem EXCEPT ![a.tramp] =
                                      Code(nvals[loc[t].nval].buf)]
                   /\ ht' = [ht EXCEPT ![loc[t].cache][loc[t].fobj] = result]
                   /\ trampoline_lock' = 0
                   /\ roots' = roots \cup {result}
                   /\ loc' = [loc EXCEPT ![t] = NoLocals]
    /\ pc' = [pc EXCEPT ![t] = "idle"]
    /\ UNCHANGED <<libvars, tableinit, nvals>>

\* ------------------------------------------------- collector and finalizer
\* The wrappers a thread is still building.
InProgress(w) == \E t \in Threads : pc[t] \in {"tr_relock", "tr_alloc"} /\ loc[t].result = w

\* The collector finds a managed wrapper unreachable, every caller having
\* dropped it, and queues its finalizer.
Collect(w) ==
    /\ wr[w].finalizer
    /\ wr[w].fin = "none"
    /\ ~InProgress(w)
    /\ wr' = [wr EXCEPT ![w].fin = "queued"]
    /\ roots' = roots \ {w}
    /\ UNCHANGED <<libvars, trampoline_lock, trampoline_freelist, slotmem, npages,
                   tableinit, ht, nvals, pc, loc>>

\* The finalizer of a wrapper that it has already run on is invoked again.
Repeat(w) ==
    /\ wr[w].fin = "done"
    /\ wr[w].runs < MaxRuns
    /\ wr' = [wr EXCEPT ![w].fin = "queued"]
    /\ UNCHANGED <<libvars, trampoline_lock, trampoline_freelist, slotmem, npages,
                   tableinit, ht, nvals, roots, pc, loc>>

\* The bug of not clearing the fields the finalizer has read.
DeleterStart_NoClear(w) ==
    /\ wr[w].fin = "queued"
    /\ trampoline_lock = 0
    /\ trampoline_lock' = 0 - w
    /\ wr' = [wr EXCEPT ![w].d = [tramp |-> wr[w].f0, fobj |-> wr[w].f1,
                                  cache |-> wr[w].f2, nval |-> wr[w].f3],
                        ![w].fin = "d_free"]
    /\ UNCHANGED <<libvars, trampoline_freelist, slotmem, npages, tableinit, ht,
                   nvals, roots, pc, loc>>

\* The bug of running the finalizer without taking the mutex.
DeleterStart_NoLock(w) ==
    /\ wr[w].fin = "queued"
    /\ wr' = [wr EXCEPT ![w].d = [tramp |-> wr[w].f0, fobj |-> wr[w].f1,
                                  cache |-> wr[w].f2, nval |-> wr[w].f3],
                        ![w].f0 = 0, ![w].f2 = 0, ![w].f3 = 0,
                        ![w].fin = "d_free"]
    /\ UNCHANGED <<libvars, trampoline_lock, trampoline_freelist, slotmem, npages,
                   tableinit, ht, nvals, roots, pc, loc>>

\* trampoline_deleter, lines 259-266: read the four fields, clear three,
\* lock the mutex.
DeleterStart(w) ==
    /\ wr[w].fin = "queued"
    /\ trampoline_lock = 0
    /\ trampoline_lock' = 0 - w
    /\ wr' = [wr EXCEPT ![w].d = [tramp |-> wr[w].f0, fobj |-> wr[w].f1,
                                  cache |-> wr[w].f2, nval |-> wr[w].f3],
                        ![w].f0 = 0, ![w].f2 = 0, ![w].f3 = 0,
                        ![w].fin = "d_free"]
    /\ UNCHANGED <<libvars, trampoline_freelist, slotmem, npages, tableinit, ht,
                   nvals, roots, pc, loc>>

\* Lines 267-268: the slot goes back on the free list.
DeleterFree(w) ==
    /\ wr[w].fin = "d_free"
    /\ IF wr[w].d.tramp # 0
       THEN /\ trampoline_freelist' = trampoline_free(wr[w].d.tramp).freelist
            /\ slotmem' = trampoline_free(wr[w].d.tramp).slotmem
       ELSE UNCHANGED <<trampoline_freelist, slotmem>>
    /\ wr' = [wr EXCEPT ![w].fin = "d_remove"]
    /\ UNCHANGED <<libvars, trampoline_lock, npages, tableinit, ht, nvals, roots,
                   pc, loc>>

\* Lines 269-273: the entry of fobj leaves the table, the buffer is freed,
\* the mutex is unlocked.
DeleterRemove(w) ==
    /\ wr[w].fin = "d_remove"
    /\ ht' = IF wr[w].d.fobj # 0 /\ wr[w].d.cache # 0
             THEN [ht EXCEPT ![wr[w].d.cache][wr[w].d.fobj] = HT_NOTFOUND]
             ELSE ht
    /\ nvals' = IF wr[w].d.nval # 0
                THEN [nvals EXCEPT ![wr[w].d.nval].frees = @ + 1]
                ELSE nvals
    /\ trampoline_lock' = 0
    /\ wr' = [wr EXCEPT ![w].fin = "done", ![w].runs = @ + 1]
    /\ UNCHANGED <<libvars, trampoline_freelist, slotmem, npages, tableinit, roots,
                   pc, loc>>

\* The steps of the callers ts, making the requests reqs, and of the collector.
TrampSteps(ts, reqs, max) ==
    \/ \E t \in ts :
        \/ CallGetTrampoline(t, reqs)
        \/ TrampLookup(t)
        \/ TrampBuild(t, max)
        \/ TrampRelock(t)
        \/ TrampAllocInsert(t)
    \/ \E w \in 1..Len(wr) :
        \/ Collect(w)
        \/ DeleterStart(w)
        \/ DeleterFree(w)
        \/ DeleterRemove(w)

\* Two threads and the collector.
TrampNext == TrampSteps(Threads, Requests, MaxBuilds)
Spec == Init /\ [][TrampNext]_vars

\* Two threads requesting wrappers of every kind, and the collector.
PermNext == TrampSteps(Threads, PermRequests, MaxBuilds)
PermSpec == Init /\ [][PermNext]_vars

\* One thread and the collector.
SeqNext == TrampSteps({1}, SeqRequests, MaxSeqBuilds)
SeqSpec == Init /\ [][SeqNext]_vars

\* One thread making specialized requests, and the collector.
FillNext == TrampSteps({1}, FillRequests, MaxFillBuilds)
FillSpec == Init /\ [][FillNext]_vars

\* One thread and a collector that may invoke a finalizer again.
RepeatNext ==
    \/ TrampSteps({1}, SeqRequests, MaxBuilds)
    \/ \E w \in 1..Len(wr) : Repeat(w)
RepeatSpec == Init /\ [][RepeatNext]_vars

\* Two threads and the collector under fair scheduling.  A call is made only
\* while a buffer is left for it, so that no call waits for the bound.  A
\* thread inside a call takes its next step if that step is enabled again
\* and again, and so does a finalizer that has been queued; a mutex is
\* granted to a thread that keeps waiting for it.  Callers need not call and
\* the collector need not collect.
Budget ==
    Len(nvals) + Cardinality({u \in Threads : pc[u] \in {"tr_lookup", "tr_build"}})
        < MaxBuilds
ThreadRun(t) ==
    \/ TrampLookup(t)
    \/ TrampBuild(t, MaxBuilds)
    \/ TrampRelock(t)
    \/ TrampAllocInsert(t)
FinalizerRun(w) ==
    /\ w \in 1..Len(wr)
    /\ (DeleterStart(w) \/ DeleterFree(w) \/ DeleterRemove(w))
FairNext ==
    \/ \E t \in Threads : (Budget /\ CallGetTrampoline(t, Requests)) \/ ThreadRun(t)
    \/ \E w \in 1..Len(wr) : Collect(w) \/ FinalizerRun(w)
FairSpec ==
    /\ Init /\ [][FairNext]_vars
    /\ \A t \in Threads : SF_vars(ThreadRun(t))
    /\ \A w \in 1..MaxBuilds : SF_vars(FinalizerRun(w))

LibSpec == Init /\ [][LibNext]_vars

\* Thread 1 in the registry and the resolver, thread 2 and the collector in
\* the trampoline cache.
MixNext == LibSteps({1}) \/ TrampSteps({2}, MixRequests, MaxMixBuilds)
MixSpec == Init /\ [][MixNext]_vars

\* ------------------------------------------------------------------ claims
\* A call that has come back to its caller without raising.
GotLibrary(t, f_lib) ==
    /\ pc[t] = "idle"
    /\ loc[t].op = "jl_get_library_"
    /\ loc[t].f_lib = f_lib
    /\ loc[t].err = "none"

\* C6, as stated: resolving a non-sentinel library name twice yields the
\* identical handle both times, and the platform loader is invoked at most
\* once for that name, whatever the name.
C6_LoaderAtMostOnce ==
    \A n \in DynNames : Cardinality(resolved[n]) <= 1 /\ loaderCalls[n] <= 1

\* C6, amended: once a resolution of a non-sentinel name has published a
\* handle, every resolution of that name returns that handle, the handle is
\* never replaced and the platform loader is never invoked for the name
\* again; every handle a resolution returned is null or the published one.
C6_ResolvedOnce ==
    /\ [](\A n \in DynNames : \A h \in resolved[n] : h = NULL \/ h = MapGet(n))
    /\ [][\A n \in DynNames : MapGet(n) # NULL =>
            /\ loaderCalls'[n] = loaderCalls[n]
            /\ MapGet(n)' = MapGet(n)
            /\ resolved'[n] \subseteq resolved[n] \cup {MapGet(n)}]_vars

\* Thread 1 resolved "m" first and thread 2 resolved it again afterwards.
C6_Witness ==
    /\ GotLibrary(1, "m") /\ loc[1].fresh
    /\ GotLibrary(2, "m") /\ ~loc[2].fresh
    /\ loc[1].handle = loc[2].handle
    /\ loc[1].handle # NULL
    /\ loaderCalls["m"] = 1

\* C7: when two threads resolve the same loadable name, both having called
\* before the name was ever resolved, exactly one loader call is made for the
\* name and both receive the same non-null handle.
C7_ConcurrentResolve ==
    \A n \in Loadable : \A t1, t2 \in Threads :
        (t1 # t2 /\ GotLibrary(t1, n) /\ GotLibrary(t2, n)
            /\ loc[t1].fresh /\ loc[t2].fresh)
        => /\ loaderCalls[n] = 1
           /\ loc[t1].handle = loc[t2].handle
           /\ loc[t1].handle # NULL

\* Both threads called for "m" before it was loaded, and both are back.
C7_Witness ==
    /\ GotLibrary(1, "m") /\ loc[1].fresh
    /\ GotLibrary(2, "m") /\ loc[2].fresh

\* A jl_load_and_lookup call that found its cell null, loaded the library and
\* raised symbol-not-found.
SymbolNotFound(t) ==
    /\ pc[t] = "idle"
    /\ loc[t].op = "jl_load_and_lookup"
    /\ loc[t].fresh
    /\ loc[t].err = "symbol_not_found"

HitStep(t) == pc[t] = "tr_lookup" /\ pc'[t] = "idle"
InsertStep(t) == pc[t] = "tr_alloc" /\ pc'[t] = "idle" /\ trampoline_lock' = 0
ReturnValue(t) ==
    IF pc[t] = "tr_lookup"
    THEN ptrhash_get(CacheOf(loc[t].site, loc[t].vals), loc[t].fobj)
    ELSE loc[t].result

\* C1, as stated: a call for a callable and specialization inputs for which
\* an earlier call returned a wrapper, not finalized since, returns that
\* same wrapper.
C1_SameWrapperTwice ==
    [][\A t \in Threads : (HitStep(t) \/ InsertStep(t)) =>
            \A w \in loc[t].first : wr[w].fin = "none" => ReturnValue(t) = w]_vars

\* A wrapper that has its slot and whose finalizer has not been queued.
Live(w) == wr[w].f0 # 0 /\ wr[w].fin = "none"

\* C2, as stated: never two created and not yet finalized wrappers for the
\* same callable in the same table.
C2_AtMostOneLive ==
    \A w1, w2 \in 1..Len(wr) :
        (w1 # w2 /\ Live(w1) /\ Live(w2)) => wr[w1].key # wr[w2].key

\* C3: no two wrappers that are not finalized hold the same slot, no slot
\* such a wrapper holds is on the free list, and no slot is on the free list
\* twice.
C3_SlotOwnership ==
    /\ \A w1, w2 \in 1..Len(wr) :
          (w1 # w2 /\ wr[w1].fin # "done" /\ wr[w2].fin # "done" /\ wr[w1].f0 # 0)
          => wr[w1].f0 # wr[w2].f0
    /\ \A w \in 1..Len(wr) :
          (wr[w].fin # "done" /\ wr[w].f0 # 0) => ~OnFreeList(wr[w].f0)
    /\ \A i, j \in 1..Len(FreeList) : i # j => FreeList[i] # FreeList[j]

\* One wrapper was finalized and its slot is on the free list while another
\* wrapper holds a different slot.
C3_Witness ==
    \E w1, w2 \in 1..Len(wr) :
        /\ wr[w1].fin = "done" /\ OnFreeList(wr[w1].d.tramp)
        /\ Live(w2) /\ wr[w2].f0 # wr[w1].d.tramp

\* C4: the finalizer pushes the slot and removes the entry within one hold
\* of trampoline_lock, the push first: from its lock to its unlock it owns
\* the lock, the step that pushes the slot leaves the tables alone, the slot
\* is on the free list when the entry is about to go, and meanwhile no
\* thread looks up, allocates or inserts.
C4_FinalizerAtomic ==
    /\ [](\A w \in 1..Len(wr) :
            /\ wr[w].fin \in {"d_free", "d_remove"} => trampoline_lock = 0 - w
            /\ (wr[w].fin = "d_remove" /\ wr[w].d.tramp # 0)
                   => OnFreeList(wr[w].d.tramp))
    /\ [][\A w \in 1..Len(wr) : wr[w].fin \in {"d_free", "d_remove"} =>
            /\ (wr'[w].fin = "d_remove" /\ wr[w].fin = "d_free") => ht' = ht
            /\ \A t \in Threads :
                  pc[t] \in {"tr_lookup", "tr_relock", "tr_alloc"} => pc'[t] = pc[t]]_vars

\* A finalizer has pushed its slot and not yet removed its entry, while a
\* thread waits to look up.
C4_Witness ==
    \E w \in 1..Len(wr) :
        /\ wr[w].fin = "d_remove"
        /\ OnFreeList(wr[w].d.tramp)
        /\ ptrhash_get(wr[w].d.cache, wr[w].d.fobj) = w
        /\ \E t \in Threads : pc[t] = "tr_lookup"

\* The wrappers the claim calls permanent: a raw code pointer, or one for a
\* concrete type, for the instance of a singleton type, or for a type
\* constructor that is its own canonical wrapper.
PermanentWrapper(w) ==
    \/ wr[w].type = "voidpointer"
    \/ wr[w].key[2] \in {ConcreteT, SingletonF, UnionAllCanon}

\* C5: a permanent wrapper has no finalizer registered and is never
\* finalized; its slot is never on the free list and never changes, and
\* the entry of its key never goes back to not found.
C5_PermanentForever ==
    /\ [](\A w \in 1..Len(wr) : PermanentWrapper(w) =>
            /\ ~wr[w].finalizer
            /\ wr[w].fin = "none"
            /\ wr[w].f0 # 0 => ~OnFreeList(wr[w].f0))
    /\ [][\A w \in 1..Len(wr) : PermanentWrapper(w) =>
            /\ wr[w].f0 # 0 => wr'[w].f0 = wr[w].f0
            /\ ptrhash_get(wr[w].key[1], wr[w].key[2]) # HT_NOTFOUND
                  => ht'[wr[w].key[1]][wr[w].key[2]] # HT_NOTFOUND]_vars

\* A permanent wrapper is in its table with its slot after a managed wrapper
\* has been collected and finalized.
C5_Witness ==
    \E w1, w2 \in 1..Len(wr) :
        /\ PermanentWrapper(w1) /\ wr[w1].f0 # 0
        /\ ptrhash_get(wr[w1].key[1], wr[w1].key[2]) = w1
        /\ wr[w2].key[2] = UnionAllOther /\ wr[w2].fin = "done"
        /\ wr[w2].d.tramp # 0

\* The step in which the finalizer of w pushes its slot, and the step in
\* which thread t takes a slot from a free list that is not empty.
FreeStep(w) == wr[w].fin = "d_free" /\ wr'[w].fin = "d_remove" /\ wr[w].d.tramp # 0
PopStep(t) == InsertStep(t) /\ trampoline_freelist # 0

\* C9: the slot a finalizer frees becomes the head of the free list, linked
\* to the old head, and a miss takes the head: the slot freed last is the
\* slot used next.
C9_LastFreedFirstReused ==
    [][/\ \A w \in 1..Len(wr) : FreeStep(w) =>
             /\ trampoline_freelist' = wr[w].d.tramp
             /\ slotmem'[wr[w].d.tramp] = trampoline_freelist
       /\ \A t \in Threads : PopStep(t) =>
             /\ wr'[loc[t].result].f0 = trampoline_freelist
             /\ trampoline_freelist' = slotmem[trampoline_freelist]]_vars

\* The wrapper of C was finalized and the wrapper of D, built next, has the
\* slot it had.
C9_Witness ==
    /\ Len(wr) = 2
    /\ wr[1].key = <<1, ClosureC>> /\ wr[1].fin = "done"
    /\ wr[2].key = <<1, ClosureD>> /\ wr[2].f0 = wr[1].d.tramp
    /\ wr[2].f0 # 0

\* C10: pages are never unmapped, a page is mapped only by an allocation
\* that finds the free list empty, an allocation that finds a free slot
\* takes a slot mapped before and maps nothing, and every slot a finalizer
\* frees makes the list one longer: N finalized wrappers leave the slots for
\* the next N misses.
C10_PagesOnlyWhenEmpty ==
    [][/\ npages' >= npages
       /\ DOMAIN slotmem \subseteq DOMAIN slotmem'
       /\ npages' # npages =>
             /\ npages' = npages + 1
             /\ trampoline_freelist = 0
             /\ \E t \in Threads : InsertStep(t)
       /\ \A t \in Threads : PopStep(t) =>
             /\ npages' = npages
             /\ wr'[loc[t].result].f0 \in DOMAIN slotmem
             /\ Len(FreeList') = Len(FreeList) - 1
       /\ \A w \in 1..Len(wr) : FreeStep(w) => Len(FreeList') = Len(FreeList) + 1]_vars

\* Two wrappers were finalized, and the two wrappers built after them have
\* slots of the one page mapped.
C10_Witness ==
    /\ Len(wr) = 4
    /\ npages = 1
    /\ wr[1].fin = "done" /\ wr[1].d.tramp # 0
    /\ wr[2].fin = "done" /\ wr[2].d.tramp # 0
    /\ Live(3) /\ Live(4)
    /\ wr[3].key # wr[4].key

\* What the claim says the buffer of a miss on (fobj, vals) under the
\* template fill holds.
BufferAsClaimed(buf, fobj, fill, vals) ==
    /\ Len(buf) = Len(fill) + 1
    /\ buf[1] = fobj
    /\ \A i \in 1..Len(fill) :
          LET v == jl_instantiate_type_in_env(fill[i], vals)
          IN buf[i + 1] = IF v = "Any" \/ IsConcreteAndImmutable(v) THEN v ELSE "NULL"
    /\ \A i \in 2..Len(buf) :
          buf[i] \in {"NULL", "Any"} \/ IsConcreteAndImmutable(buf[i])

\* C11: the buffer a miss builds for a template of length n has length n+1,
\* the callable first, then for each template entry the instantiated value
\* if it is Any or concrete and immutable and the null sentinel otherwise;
\* the wrapper built with it is inserted, its slot initialized from that
\* buffer.
C11_SpecializationBuffer ==
    [][\A t \in Threads :
          /\ (pc[t] = "tr_build" /\ pc'[t] = "tr_relock") =>
                BufferAsClaimed(nvals'[loc'[t].nval].buf, loc[t].fobj,
                                Fill(loc[t].site), loc[t].vals)
          /\ InsertStep(t) =>
                /\ BufferAsClaimed(nvals[loc[t].nval].buf, loc[t].fobj,
                                   Fill(loc[t].site), loc[t].vals)
                /\ ht'[loc[t].cache][loc[t].fobj] = loc[t].result
                /\ slotmem'[wr'[loc[t].result].f0] = Code(nvals[loc[t].nval].buf)]_vars

\* Wrappers are in their tables whose buffers hold the null sentinel for an
\* abstract type and for a mutable type, and one whose buffer holds Int64.
C11_Witness ==
    \E w1, w2, w3 \in 1..Len(wr) :
        /\ \A w \in {w1, w2, w3} : Live(w) /\ ptrhash_get(wr[w].key[1], wr[w].key[2]) = w
        /\ wr[w1].key[1] = InnerTable(2, 12)
        /\ nvals[wr[w1].f3].buf = <<ClosureC, "NULL", "Any">>
        /\ wr[w2].key[1] = InnerTable(2, 13)
        /\ nvals[wr[w2].f3].buf = <<ClosureC, "NULL", "Any">>
        /\ wr[w3].key[1] = InnerTable(2, 11)
        /\ nvals[wr[w3].f3].buf = <<ClosureC, "Int64", "Any">>

\* The wrappers that are entries of cache tables.
InTable(w) == \E tb \in Tables : \E k \in Fobjs : ptrhash_get(tb, k) = w

\* The step in which the build of thread t fails and its exception reaches
\* the caller.
BuildFails(t) == pc[t] = "tr_build" /\ pc'[t] = "idle"

\* C12, the failure path: when instantiation or the allocation of the
\* wrapper fails, the buffer malloc'd for the build is freed once, then and
\* never again, no slot leaves the free list, no page is mapped, no wrapper
\* exists for the build and no table changes.
C12_FailureLeavesNothing ==
    /\ [](\A i \in 1..Len(nvals) : nvals[i].frees <= 1)
    /\ [][\A t \in Threads : BuildFails(t) =>
            /\ Len(nvals') = Len(nvals) + 1
            /\ nvals'[Len(nvals')].frees = 1
            /\ trampoline_freelist' = trampoline_freelist
            /\ slotmem' = slotmem
            /\ npages' = npages
            /\ wr' = wr
            /\ ht' = ht]_vars

\* C12, as stated: no buffer is freed twice, and in every state every
\* wrapper that is an entry of a cache table has a slot, initialized from
\* its buffer.
C12_NoPartialEntry ==
    /\ \A i \in 1..Len(nvals) : nvals[i].frees <= 1
    /\ \A w \in 1..Len(wr) : InTable(w) =>
          /\ wr[w].f0 # 0
          /\ slotmem[wr[w].f0] = 0 - wr[w].key[2]

\* C13, as stated: a thread that is back in its caller, its call having
\* returned or raised, holds neither lock; so a raise out of
\* trampoline_alloc leaves trampoline_lock free.
C13_LockReleasedOnFailure ==
    \A t \in Threads : pc[t] = "idle" => (trampoline_lock # t /\ libmap_lock # t)

\* Where a thread is inside an operation that may allocate managed memory or
\* block: instantiation, the allocation of the wrapper and the registration
\* of its finalizer; the platform loader; mmap, which trampoline_alloc calls
\* when the free list is empty.
InBuild(t) == pc[t] = "tr_build"
InLoader(t) == pc[t] = "gl_load"
InMmap(t) == pc[t] = "tr_alloc" /\ trampoline_freelist = 0

DeleterStep(w) ==
    /\ wr[w].fin \in {"queued", "d_free", "d_remove"}
    /\ wr'[w].fin # wr[w].fin

\* C15: no step of a run of the finalizer on a wrapper it has run on before
\* changes the free list, the first word of any slot, any table or the free
\* count of any buffer, whatever happened since the first run; and no buffer
\* is ever freed twice.
C15_FinalizerIdempotent ==
    /\ [](\A i \in 1..Len(nvals) : nvals[i].frees <= 1)
    /\ [][\A w \in 1..Len(wr) : (DeleterStep(w) /\ wr[w].runs >= 1) =>
            /\ trampoline_freelist' = trampoline_freelist
            /\ slotmem' = slotmem
            /\ ht' = ht
            /\ nvals' = nvals]_vars

\* The finalizer has run twice on the first wrapper; between the runs the
\* second wrapper was built for the same callable on the slot the first run
\* freed, and it is still in the table with that slot.
C15_Witness ==
    /\ Len(wr) = 2
    /\ wr[1].runs = 2 /\ wr[1].fin = "done"
    /\ wr[2].key = wr[1].key
    /\ Live(2) /\ ptrhash_get(wr[2].key[1], wr[2].key[2]) = 2
    /\ npages = 1 /\ wr[2].f0 = PageHead(jl_page_size)
    /\ nvals[1].frees = 1

\* The wrappers other than the one thread t is about to insert that have
\* their slots, are not finalized and were built for the key of t's request.
Rivals(t) ==
    {w \in 1..Len(wr) : /\ w # loc[t].result
                        /\ Live(w)
                        /\ wr[w].key = <<loc[t].cache, loc[t].fobj>>}

\* C16: when a thread inserts the wrapper it built for a key for which
\* another thread, having missed as well, has built and inserted one
\* meanwhile, each caller has its own wrapper and the two have distinct
\* slots, neither on the free list; the table maps the key to exactly one of
\* the two, and the other is in no table and is held by its caller alone.
C16_RaceKeepsOneEntry ==
    [][\A t \in Threads : InsertStep(t) => \A w \in Rivals(t) :
          LET mine == loc[t].result
              kept == ht'[loc[t].cache][loc[t].fobj]
              other == IF kept = mine THEN w ELSE mine
          IN /\ wr'[mine].f0 # 0 /\ wr'[w].f0 # 0
             /\ wr'[mine].f0 # wr'[w].f0
             /\ \A i \in 1..Len(FreeList') :
                   FreeList'[i] # wr'[mine].f0 /\ FreeList'[i] # wr'[w].f0
             /\ kept \in {mine, w}
             /\ \A tb \in Tables : \A k \in Fobjs : ht'[tb][k] # other
             /\ {mine, w} \subseteq roots']_vars

\* Both threads missed on ClosureC at site 1 and both are back, each with
\* its own wrapper; the table holds the second.
C16_Witness ==
    /\ Len(wr) = 2
    /\ pc[1] = "idle" /\ pc[2] = "idle"
    /\ wr[1].key = <<1, ClosureC>> /\ wr[2].key = <<1, ClosureC>>
    /\ Live(1) /\ Live(2) /\ roots = {1, 2}
    /\ wr[1].f0 # wr[2].f0
    /\ ptrhash_get(1, ClosureC) = 2
    /\ ~InTable(1)
    /\ ~OnFreeList(wr[1].f0)

\* A jl_load_and_lookup call of thread t that has read its cell and found a
\* handle in it.
FastPath(t) ==
    /\ loc[t].op = "jl_load_and_lookup"
    /\ pc[t] # "ll_load"
    /\ ~loc[t].fresh

\* C17: a cell that holds a handle keeps that handle; the writers racing to
\* store into one cell store the same handle; and a call that found a handle
\* in its cell neither takes libmap_lock nor has the loader invoked.
C17_CellWrittenOnce ==
    /\ [](\A t1, t2 \in Threads :
            (pc[t1] = "ll_store" /\ pc[t2] = "ll_store" /\ loc[t1].hnd = loc[t2].hnd)
            => loc[t1].handle = loc[t2].handle)
    /\ [](\A t \in Threads : FastPath(t) =>
            /\ pc[t] \in {"ll_dlsym", "idle"}
            /\ libmap_lock # t)
    /\ [][/\ \A c \in Cells : cell[c] # NULL => cell'[c] = cell[c]
          /\ \A t \in Threads :
                (pc[t] = "ll_store" /\ cell[loc[t].hnd] # NULL)
                => cell[loc[t].hnd] = loc[t].handle
          /\ \A t \in Threads :
                (FastPath(t) /\ pc'[t] # pc[t] /\ pc[t] # "idle")
                => (loaderCalls' = loaderCalls /\ libmap_lock' = libmap_lock)]_vars

\* Both threads found cell 1 null, both resolved "m" and stored, and both
\* are back with the address of sin; the loader ran once.
C17_Witness ==
    /\ \A t \in Threads :
          /\ pc[t] = "idle" /\ loc[t].op = "jl_load_and_lookup"
          /\ loc[t].hnd = 1 /\ loc[t].fresh
          /\ loc[t].ptr = [lib |-> "m", sym |-> "sin"]
    /\ cell[1] = loc[1].handle /\ cell[1] = loc[2].handle
    /\ cell[1] # NULL
    /\ loaderCalls["m"] = 1

\* The step in which the finalizer of w removes the entry of its callable.
RemoveStep(w) == wr[w].fin = "d_remove" /\ wr'[w].fin = "done"

\* C18, as stated: the finalizer of a wrapper leaves alone every entry that
\* maps to another wrapper.
C18_RemovesOnlyOwnEntry ==
    [][\A w \in 1..Len(wr) : RemoveStep(w) =>
          \A tb \in Tables : \A k \in Fobjs :
              ptrhash_get(tb, k) # w => ht'[tb][k] = ptrhash_get(tb, k)]_vars

\* C19, as stated: every wrapper a caller holds as the result of
\* jl_get_cfunction_trampoline has a slot, and the slot is not on the free
\* list.
C19_HeldWrappersHaveSlots ==
    \A w \in roots : wr[w].f0 # 0 /\ ~OnFreeList(wr[w].f0)

\* Where a thread asks for libmap_lock, and where for trampoline_lock.
WantsLibmapLock(t) == pc[t] = "gl_entry" /\ loc[t].f_lib \notin SentinelNames
WantsTrampolineLock(t) == pc[t] \in {"tr_lookup", "tr_relock"}

\* The part of C20 about the order of locking: a thread that asks for a
\* lock holds neither lock, and so does a finalizer.
C20_NoNestedLocking ==
    /\ \A t \in Threads : (WantsLibmapLock(t) \/ WantsTrampolineLock(t)) =>
          (libmap_lock # t /\ trampoline_lock # t)
    /\ \A w \in 1..Len(wr) : wr[w].fin = "queued" => trampoline_lock # 0 - w

\* C20, as stated: no thread asks for a lock while it holds one, and under
\* fair scheduling every call of jl_get_cfunction_trampoline that has
\* started comes back to its caller, returning or raising, with
\* trampoline_lock not held by the thread, and every finalizer that has
\* been queued runs to its end.
C20_EveryOperationCompletes ==
    /\ []C20_NoNestedLocking
    /\ \A t \in Threads :
          (pc[t] # "idle") ~> (pc[t] = "idle" /\ trampoline_lock # t)
    /\ \A w \in 1..MaxBuilds :
          (w <= Len(wr) /\ wr[w].fin = "queued") ~> (w <= Len(wr) /\ wr[w].fin = "done")

\* C20, what does hold: in a run in which no call ever comes back to its
\* caller with trampoline_lock held, every call that has started comes back
\* and every queued finalizer runs to its end.
C20_CompletesUnlessLockLeaks ==
    ([](\A t \in Threads : pc[t] = "idle" => trampoline_lock # t)) =>
        /\ \A t \in Threads : (pc[t] # "idle") ~> (pc[t] = "idle")
        /\ \A w \in 1..MaxBuilds :
              (w <= Len(wr) /\ wr[w].fin = "queued")
                  ~> (w <= Len(wr) /\ wr[w].fin = "done")
====
